---- MODULE Spec2Model ----
(***************************************************************************)
(* A model of toponetx.classes.cell_complex.CellComplex: the 1-skeleton    *)
(* (a networkx Graph), the registry of 2-cells (CellView) and the          *)
(* operators derived from them (incidence, Laplacian, adjacency).          *)
(***************************************************************************)
EXTENDS Integers, Sequences, FiniteSets, TLC

\* Node identifiers are 1..MaxNode.
MaxNode == 3
\* Longest node sequence handed to add_cell / Cell(...).
MaxCellLen == 3
\* Largest number of records the registry is allowed to hold.
MaxCells == 2
\* Number of mutating calls made on one complex.
MaxOps == 3
\* Longest batch handed to add_cells_from / remove_cells; the batches are
\* made of node sequences of length 1..MaxBatchCellLen over 1..MaxBatchNode.
MaxBatch == 2
MaxBatchCellLen == 2
MaxBatchNode == 2
\* Longest closed walk handed to add_cell in the runs that register a walk
\* revisiting an edge, such as (1, 2, 3, 2) or (1, 2, 3, 1, 2, 3), and the
\* number of walks such a run registers.
MaxWalkLen == 6
MaxWalkCells == 1
\* Number of calls in a run that only builds.
MaxBuildOps == 2
MaxGraphEdges == 2
\* Attribute values are 1..MaxAttrValue.
MaxAttrValue == 2
\* Largest number of times one node sequence is inserted in a row.
MaxRepeat == 3
\* Largest number of hops asked of a k-hop operator.
MaxHops == 2
\* Cached values are 1..MaxCacheValue; MaxCacheOps calls are made on the cache.
MaxCacheValue == 2
MaxCacheOps == 5

VARIABLES
    regular,  \* self._regular
    nodes,    \* self._G.nodes, in insertion order
    edges,    \* self._G.edges, each edge the set of its endpoints
    cells,    \* self._cells, one record per registered cell, in iteration order
    nops,     \* number of calls made so far
    last,     \* the call that ends the run: its arguments and how it ended
    held,     \* what a caller keeps of an earlier incidence_matrix(d, index=True)
    caller,   \* the graph G of CellComplex(G), as it was at construction
    node_attr, \* self._G.nodes[n], the attribute dictionary of each node
    cache     \* the cache attribute of a Complex object

vars == <<regular, nodes, edges, cells, nops, last, held, caller, node_attr, cache>>

Nodes == 1..MaxNode
Ranks == {0, 1, 2, 3}

Range(s) == {s[i] : i \in DOMAIN s}

\* every node sequence of length 0..MaxCellLen
CellInputs == UNION {[1..k -> Nodes] : k \in 0..MaxCellLen}

\* the batches handed to add_cells_from and remove_cells
BatchInputs ==
    UNION {[1..k -> UNION {[1..n -> 1..MaxBatchNode] : n \in 1..MaxBatchCellLen}]
           : k \in 1..MaxBatch}

\* the closed walks longer than MaxCellLen
WalkInputs == UNION {[1..k -> Nodes] : k \in (MaxCellLen + 1)..MaxWalkLen}

\* how a cell is handed to remove_cell
Forms == {"list", "tuple", "Cell"}

----------------------------------------------------------------------------
(* Cell (toponetx.classes.cell)                                            *)

\* zip(cell, cell[1:]): consecutive pairs, the closing pair left out
boundary_open(elements) ==
    [i \in 1..(Len(elements) - 1) |-> <<elements[i], elements[i + 1]>>]

\* zip_longest(cell, cell[1:] + [cell[0]]): consecutive pairs with wraparound
boundary(elements) ==
    [i \in 1..Len(elements) |-> <<elements[i], elements[(i % Len(elements)) + 1]>>]

\* a repeat test that compares neighbours in the sequence only
HasRepeatNeighbours(elements) ==
    \E i \in 1..(Len(elements) - 1) : elements[i] = elements[i + 1]

\* len(set(cell)) != len(cell)
HasRepeat(elements) == Cardinality(Range(elements)) # Len(elements)

\* Cell(elements, regular=reg) succeeds
CellValid(elements, reg) ==
    /\ Len(elements) >= 2
    /\ Cardinality(Range(boundary(elements))) >= 2
    /\ reg => ~HasRepeat(elements)

\* a constructed Cell object: its node sequence (the regular flag is looked
\* at by the constructor only, Cell.is_regular goes by the node sequence)
Cell(elements, reg) == [elements |-> elements]

\* Cell.is_regular
CellIsRegular(c) == ~HasRepeat(c.elements)

\* the Cell objects a caller can build
CellObjects ==
    {Cell(el, reg) : <<el, reg>> \in {x \in CellInputs \X BOOLEAN : CellValid(x[1], x[2])}}

----------------------------------------------------------------------------
(* CellView (the registry)                                                 *)

\* cells.insert_cell(cell): a new record under the key cell.elements, after
\* the records that already share that key
insert_cell(reg, c) ==
    LET same == {i \in DOMAIN reg : reg[i].elements = c.elements}
        pos  == IF same = {} THEN Len(reg)
                ELSE CHOOSE i \in same : \A j \in same : j <= i
    IN  [i \in 1..(Len(reg) + 1) |->
            IF i <= pos THEN reg[i] ELSE IF i = pos + 1 THEN c ELSE reg[i - 1]]

\* a delete_cell that takes out the first record under the key only
delete_cell_once(reg, key) ==
    LET same == {i \in DOMAIN reg : reg[i].elements = key}
        first == CHOOSE i \in same : \A j \in same : i <= j
    IN  IF same = {} THEN reg
        ELSE [i \in 1..(Len(reg) - 1) |-> IF i < first THEN reg[i] ELSE reg[i + 1]]

\* cells.delete_cell(key): every record under the key goes
delete_cell(reg, key) == SelectSeq(reg, LAMBDA r : r.elements # key)

HasKey(reg, key) == \E i \in DOMAIN reg : reg[i].elements = key

\* the undirected boundary edges of a cell
EdgeSet(elements) == {{e[1], e[2]} : e \in Range(boundary(elements))}

\* cells.remove_equivalent_cells(): of the records with the same set of
\* boundary edges the first one stays
remove_equivalent(reg) ==
    LET keep == {i \in DOMAIN reg :
                    \A j \in 1..(i - 1) : EdgeSet(reg[j].elements) # EdgeSet(reg[i].elements)}
        idx  == [k \in 1..Cardinality(keep) |->
                    CHOOSE i \in keep : Cardinality({j \in keep : j < i}) = k - 1]
    IN  [k \in 1..Cardinality(keep) |-> reg[idx[k]]]

----------------------------------------------------------------------------
(* The graph backend, as CellComplex uses it                               *)

\* Graph.add_node
GAddNode(ns, n) == IF n \in Range(ns) THEN ns ELSE Append(ns, n)

\* the attribute dictionaries handed to add_node(node, **attr)
AttrNames == {"color", "weight"}
AttrValues == 1..MaxAttrValue
AttrInputs == UNION {[K -> AttrValues] : K \in SUBSET AttrNames}

\* {}
NoAttr == [k \in {} |-> 0]

\* dict.update
DictUpdate(d, attr) ==
    [k \in DOMAIN d \cup DOMAIN attr |-> IF k \in DOMAIN attr THEN attr[k] ELSE d[k]]

\* the attribute dictionaries of the nodes ns: a node new to the graph starts
\* with an empty one, a removed node loses its own
NodeAttr(ns, store) ==
    [n \in Range(ns) |-> IF n \in DOMAIN store THEN store[n] ELSE NoAttr]

\* Graph.add_node(n, **attr) on a node the graph may hold already, its
\* attributes left as they were
add_node_keep_attr(X, store, n, attr) ==
    [nodes |-> GAddNode(X.nodes, n), edges |-> X.edges, cells |-> X.cells,
     node_attr |-> [m \in Range(GAddNode(X.nodes, n)) |->
                      IF m = n /\ n \notin Range(X.nodes) THEN attr
                      ELSE NodeAttr(GAddNode(X.nodes, n), store)[m]]]

\* add_node(node, **attr): self._G.add_node(node, **attr), which creates the
\* node if it is new and updates its attribute dictionary with attr
add_node(X, store, n, attr) ==
    [nodes |-> GAddNode(X.nodes, n), edges |-> X.edges, cells |-> X.cells,
     node_attr |-> [m \in Range(GAddNode(X.nodes, n)) |->
                      IF m = n
                      THEN DictUpdate(NodeAttr(GAddNode(X.nodes, n), store)[n], attr)
                      ELSE NodeAttr(GAddNode(X.nodes, n), store)[m]]]

\* Graph.add_edge(u, v): both endpoints become nodes, u first
GAddEdgeNodes(ns, u, v) == GAddNode(GAddNode(ns, u), v)

Pos(ns, n) == CHOOSE i \in DOMAIN ns : ns[i] = n

\* the orders in which the nodes ns can have been inserted into a graph
InsertionOrders(ns) ==
    {p \in [DOMAIN ns -> Range(ns)] : \A i, j \in DOMAIN ns : i # j => p[i] # p[j]}

\* Graph.edges: each edge once, as (u, v) with u the endpoint added first
GEdges(ns, es) ==
    {<<u, v>> \in Range(ns) \X Range(ns) : {u, v} \in es /\ Pos(ns, u) <= Pos(ns, v)}

\* Graph.degree[n]: a self-loop counts twice
GDegree(es, n) == Cardinality({e \in es : n \in e}) + (IF {n} \in es THEN 1 ELSE 0)

----------------------------------------------------------------------------
\* the complex as one value: what the mutating calls read and write
Complex(ns, es, reg) == [nodes |-> ns, edges |-> es, cells |-> reg]

\* how a call ended: the complex it leaves, "ok" (returned after doing its
\* work), "noop" (returned after printing a diagnostic) or "raised"
Result(X, outcome, why) ==
    [nodes |-> X.nodes, edges |-> X.edges, cells |-> X.cells,
     outcome |-> outcome, why |-> why]

\* for e in <iterable of edges>: G.add_edge(e[0], e[1]), the edges taken in
\* any order (the iterable is a set of tuples): the node orders that can result
RECURSIVE AddEdgesAnyOrder(_, _)
AddEdgesAnyOrder(ns, E) ==
    IF \A e \in E : e[1] \in Range(ns) /\ e[2] \in Range(ns) THEN {ns}
    ELSE UNION {AddEdgesAnyOrder(GAddEdgeNodes(ns, e[1], e[2]), E \ {e}) : e \in E}

\* for e in cell.boundary: G.add_edge(e[0], e[1]), the edges taken in list order
RECURSIVE AddEdgesInOrder(_, _, _)
AddEdgesInOrder(ns, b, i) ==
    IF i > Len(b) THEN ns
    ELSE AddEdgesInOrder(GAddEdgeNodes(ns, b[i][1], b[i][2]), b, i + 1)

\* def add_cell(self, cell, rank=None, check_skeleton=False, **attr)
check_skeleton_default == FALSE

\* is_insertable_cycle with the `if check_skeleton:` block left out
is_insertable_cycle_unchecked(X, reg, elements, isCell, check_skeleton) ==
    IF Len(elements) <= 1 THEN "short"
    ELSE IF reg /\ HasRepeat(elements) THEN "irregular"
    ELSE "ok"

\* is_insertable_cycle(cell, check_skeleton): "ok" for True, the reason for
\* False, "TypeError" when cell[1:] + [cell[0]] is evaluated on the tuple
\* cell.elements of a Cell
is_insertable_cycle(X, reg, elements, isCell, check_skeleton) ==
    IF Len(elements) <= 1 THEN "short"
    ELSE IF reg /\ HasRepeat(elements) THEN "irregular"
    ELSE IF check_skeleton
         THEN IF isCell THEN "TypeError"
              ELSE IF \E e \in Range(boundary(elements)) : {e[1], e[2]} \notin X.edges
                   THEN "skeleton"
                   ELSE "ok"
    ELSE "ok"

\* the branch `elif rank == 1` without `elif len(set(cell)) == 1: raise`
add_cell_rank1_any_pair(X, cell) ==
    IF Len(cell) # 2 THEN {Result(X, "raised", "pair")}
    ELSE {Result(Complex(GAddEdgeNodes(X.nodes, cell[1], cell[2]),
                         X.edges \cup {{cell[1], cell[2]}}, X.cells),
                 "ok", "edge")}

\* add_cell, the branch `elif rank == 1`
add_cell_rank1(X, cell) ==
    IF Len(cell) # 2 THEN {Result(X, "raised", "pair")}
    ELSE IF Cardinality(Range(cell)) = 1 THEN {Result(X, "raised", "selfloop")}
    ELSE {Result(Complex(GAddEdgeNodes(X.nodes, cell[1], cell[2]),
                         X.edges \cup {{cell[1], cell[2]}}, X.cells),
                 "ok", "edge")}

\* add_cell, the branch `elif rank == 2`: the boundary edges go into the
\* skeleton, then Cell(cell, regular=self._regular) is built and registered
add_cell_rank2(X, reg, cell, check_skeleton) ==
    LET ins == is_insertable_cycle(X, reg, cell, FALSE, check_skeleton)
    IN  IF ins # "ok" THEN {Result(X, "noop", ins)}
        ELSE LET edges_cell == Range(boundary(cell))
                 es == X.edges \cup EdgeSet(cell)
             IN  {IF CellValid(cell, reg)
                  THEN Result(Complex(ns, es, insert_cell(X.cells, Cell(cell, reg))),
                              "ok", "cell")
                  ELSE Result(Complex(ns, es, X.cells), "raised", "Cell")
                  : ns \in AddEdgesAnyOrder(X.nodes, edges_cell)}

\* add_cell with `elif rank >= 2` in the place of `elif rank == 2` and rank 0
\* handed on to add_node
add_cell_any_rank(X, reg, cell, rank, check_skeleton) ==
    IF rank = 0 THEN
        {Result(Complex(IF Len(cell) = 0 THEN X.nodes ELSE GAddNode(X.nodes, cell[1]),
                        X.edges, X.cells), "ok", "node")}
    ELSE IF rank = 1 THEN add_cell_rank1(X, cell)
    ELSE add_cell_rank2(X, reg, cell, check_skeleton)

\* add_cell(cell, rank, check_skeleton) with cell a list or a tuple of nodes:
\* the set of ways the call can end
add_cell(X, reg, cell, rank, check_skeleton) ==
    IF rank = 0 THEN {Result(X, "raised", "rank0")}
    ELSE IF rank = 1 THEN add_cell_rank1(X, cell)
    ELSE IF rank = 2 THEN add_cell_rank2(X, reg, cell, check_skeleton)
    ELSE {Result(X, "raised", "rank")}

\* add_cell(cell, rank, check_skeleton) with cell a Cell object: the rank
\* check is skipped
add_cell_object(X, reg, c, rank, check_skeleton) ==
    LET ins == is_insertable_cycle(X, reg, c.elements, TRUE, check_skeleton)
    IN  IF ins = "TypeError" THEN Result(X, "raised", ins)
        ELSE IF ins # "ok" THEN Result(X, "noop", ins)
        ELSE LET ns == AddEdgesInOrder(X.nodes, boundary(c.elements), 1)
                 es == X.edges \cup EdgeSet(c.elements)
             IN  IF reg /\ ~CellIsRegular(c)
                 THEN Result(Complex(ns, es, X.cells), "raised", "regularity")
                 ELSE Result(Complex(ns, es, insert_cell(X.cells, c)), "ok", "cell")

\* add_cells_from(cell_set, rank): add_cell(cell=cell, rank=rank) for each
\* element from the i-th on; an element that raises ends the loop
RECURSIVE add_cells_from(_, _, _, _, _)
add_cells_from(X, reg, cell_set, i, rank) ==
    IF i > Len(cell_set) THEN {Result(X, "ok", "batch")}
    ELSE UNION {IF r.outcome = "raised" THEN {r}
                ELSE add_cells_from(Complex(r.nodes, r.edges, r.cells), reg,
                                    cell_set, i + 1, rank)
                : r \in add_cell(X, reg, cell_set[i], rank, check_skeleton_default)}

\* remove_cell that takes the boundary edges of the cell out of the skeleton
\* along with its records
remove_cell_cascade(X, form, key) ==
    IF form = "list" THEN {Result(X, "ok", "ignored")}
    ELSE IF HasKey(X.cells, key)
         THEN {Result(Complex(X.nodes, X.edges \ EdgeSet(key), delete_cell(X.cells, key)),
                      "ok", "deleted")}
         ELSE {Result(X, "ok", "absent"), Result(X, "raised", "absent")}

\* remove_cell(cell): a Cell or a tuple names a key, anything else is ignored;
\* what delete_cell does with a key that is not registered is left open
remove_cell(X, form, key) ==
    IF form = "list" THEN {Result(X, "ok", "ignored")}
    ELSE IF HasKey(X.cells, key)
         THEN {Result(Complex(X.nodes, X.edges, delete_cell(X.cells, key)), "ok", "deleted")}
         ELSE {Result(X, "ok", "absent"), Result(X, "raised", "absent")}

\* remove_cells(cell_set): remove_cell(cell) for each element from the i-th on
RECURSIVE remove_cells(_, _, _, _)
remove_cells(X, form, cell_set, i) ==
    IF i > Len(cell_set) THEN {Result(X, "ok", "batch")}
    ELSE UNION {IF r.outcome = "raised" THEN {r}
                ELSE remove_cells(Complex(r.nodes, r.edges, r.cells), form, cell_set, i + 1)
                : r \in remove_cell(X, form, cell_set[i])}

\* singletons(): the nodes of degree 0
singletons(X) == {n \in Range(X.nodes) : GDegree(X.edges, n) = 0}

\* a remove_singletons that takes every node of degree 2 or less for a
\* singleton: G.remove_node(n) removes the edges at n with it
remove_singletons_low_degree(X) ==
    LET low == {n \in Range(X.nodes) : GDegree(X.edges, n) <= 2}
    IN  Complex(SelectSeq(X.nodes, LAMBDA n : n \notin low),
                {e \in X.edges : e \cap low = {}}, X.cells)

\* remove_singletons(): G.remove_node(n) for every singleton
remove_singletons(X) ==
    Complex(SelectSeq(X.nodes, LAMBDA n : n \notin singletons(X)), X.edges, X.cells)

\* a call of remove_singletons(): the complex it leaves in self and the
\* complexes it returns; the body ends without a return statement, so the
\* call returns None
remove_singletons_call(X) == [self |-> remove_singletons(X), returned |-> {}]

----------------------------------------------------------------------------
(* The derived operators.  A matrix is its shape and its entries.          *)

Cells(r, c) == (1..r) \X (1..c)

\* csr_matrix(...), tocsr(): the entries of a matrix, held as stored values
csr_matrix(f) == IF f = <<>> THEN f ELSE f

\* sorted(...) of a set of nodes
SortedNodes(S) ==
    [i \in 1..Cardinality(S) |-> CHOOSE x \in S : Cardinality({y \in S : y < x}) = i - 1]

\* tuples compare lexicographically
TupleLess(a, b) == a[1] < b[1] \/ (a[1] = b[1] /\ a[2] < b[2])

\* sorted(...) of a set of pairs
SortedPairs(S) ==
    [i \in 1..Cardinality(S) |->
        CHOOSE x \in S : Cardinality({y \in S : TupleLess(y, x)}) = i - 1]

\* tuple(sorted(edge))
SortedEdge(e) == IF e[1] <= e[2] THEN e ELSE <<e[2], e[1]>>

RECURSIVE SumTo(_, _)
SumTo(f, n) == IF n = 0 THEN 0 ELSE f[n] + SumTo(f, n - 1)

Abs(x) == IF x < 0 THEN -x ELSE x

\* abs(A)
MatAbs(A) ==
    [rows |-> A.rows, cols |-> A.cols, e |-> csr_matrix([p \in DOMAIN A.e |-> Abs(A.e[p])])]

\* A.transpose()
Transpose(A) ==
    [rows |-> A.cols, cols |-> A.rows,
     e |-> csr_matrix([p \in Cells(A.cols, A.rows) |-> A.e[<<p[2], p[1]>>]])]

\* A @ B, A.dot(B)
MatMul(A, B) ==
    [rows |-> A.rows, cols |-> B.cols,
     e |-> csr_matrix([p \in Cells(A.rows, B.cols) |->
               SumTo([k \in 1..A.cols |-> A.e[<<p[1], k>>] * B.e[<<k, p[2]>>]], A.cols)])]

\* A + B
MatAdd(A, B) ==
    [rows |-> A.rows, cols |-> A.cols,
     e |-> csr_matrix([p \in DOMAIN A.e |-> A.e[p] + B.e[p]])]

\* A.setdiag(0)
SetDiagZero(A) ==
    [rows |-> A.rows, cols |-> A.cols,
     e |-> csr_matrix([p \in DOMAIN A.e |-> IF p[1] = p[2] THEN 0 ELSE A.e[p]])]

\* sorted(self._G.edges)
edgelist(X) == SortedPairs(GEdges(X.nodes, X.edges))

\* sorted(self._G.nodes)
nodelist(X) == SortedNodes(Range(X.nodes))

\* incidence_matrix(0): a row of ones
incidence_matrix_0(X) ==
    [rows |-> 1, cols |-> Len(X.nodes), e |-> csr_matrix([p \in Cells(1, Len(X.nodes)) |-> 1])]

\* incidence_matrix(1) with (u, v) = e[:2], the endpoints as G.edges reports
\* them, in the place of sorted(e[:2])
incidence_matrix_1_unsorted(X) ==
    LET nl == nodelist(X)
        el == edgelist(X)
    IN  [rows |-> Len(nl), cols |-> Len(el),
         e |-> csr_matrix([p \in Cells(Len(nl), Len(el)) |->
                   LET uv == el[p[2]]
                   IN  IF nl[p[1]] = uv[2] THEN 1
                       ELSE IF nl[p[1]] = uv[1] THEN -1
                       ELSE 0])]

\* incidence_matrix(1): A[ui, ei] = -1, then A[vi, ei] = 1, (u, v) = sorted(e[:2])
incidence_matrix_1(X) ==
    LET nl == nodelist(X)
        el == edgelist(X)
    IN  [rows |-> Len(nl), cols |-> Len(el),
         e |-> csr_matrix([p \in Cells(Len(nl), Len(el)) |->
                   LET uv == SortedEdge(el[p[2]])
                   IN  IF nl[p[1]] = uv[2] THEN 1
                       ELSE IF nl[p[1]] = uv[1] THEN -1
                       ELSE 0])]

\* edge_index = {tuple(sorted(edge)): i for i, edge in enumerate(edgelist)}
edge_index(X) ==
    LET el == edgelist(X)
    IN  [k \in {SortedEdge(el[i]) : i \in DOMAIN el} |->
            CHOOSE i \in DOMAIN el : SortedEdge(el[i]) = k]

\* edge_index[tuple(sorted(edge))] fails for a boundary edge of a registered cell
incidence_matrix_2_raises(X) ==
    \E i \in DOMAIN X.cells : \E e \in Range(boundary(X.cells[i].elements)) :
        {e[1], e[2]} \notin X.edges

\* edge_visiting_dic with every visit counted +1, whichever way the edge is
\* walked
RECURSIVE edge_visiting_dic_unsigned(_, _, _)
edge_visiting_dic_unsigned(eidx, b, n) ==
    IF n = 0 THEN [ei \in {} |-> 0]
    ELSE LET dic == edge_visiting_dic_unsigned(eidx, b, n - 1)
             ei  == eidx[SortedEdge(b[n])]
         IN  [k \in DOMAIN dic \cup {ei} |->
                 IF k = ei THEN (IF ei \in DOMAIN dic THEN dic[ei] + 1 ELSE 1)
                 ELSE dic[k]]

\* edge_visiting_dic with the orientation of the last visit kept in the place
\* of the sum over the visits
RECURSIVE edge_visiting_dic_last(_, _, _)
edge_visiting_dic_last(eidx, b, n) ==
    IF n = 0 THEN [ei \in {} |-> 0]
    ELSE LET dic  == edge_visiting_dic_last(eidx, b, n - 1)
             edge == b[n]
             ei   == eidx[SortedEdge(edge)]
             sign == IF edge \in DOMAIN eidx THEN 1 ELSE -1
         IN  [k \in DOMAIN dic \cup {ei} |-> IF k = ei THEN sign ELSE dic[k]]

\* edge_visiting_dic after the first n boundary edges of a cell: the row of
\* an edge -> the orientation accumulated over the visits so far
RECURSIVE edge_visiting_dic(_, _, _)
edge_visiting_dic(eidx, b, n) ==
    IF n = 0 THEN [ei \in {} |-> 0]
    ELSE LET dic  == edge_visiting_dic(eidx, b, n - 1)
             edge == b[n]
             ei   == eidx[SortedEdge(edge)]
             sign == IF edge \in DOMAIN eidx THEN 1 ELSE -1
         IN  [k \in DOMAIN dic \cup {ei} |->
                 IF k = ei THEN (IF ei \in DOMAIN dic THEN dic[ei] + sign ELSE sign)
                 ELSE dic[k]]

\* incidence_matrix(2): A[ei, celli] = edge_visiting_dic[ei], rewritten at
\* every visit of the edge
incidence_matrix_2(X) ==
    LET eidx == edge_index(X)
        dics == [c \in DOMAIN X.cells |->
                    LET b == boundary(X.cells[c].elements)
                    IN  edge_visiting_dic(eidx, b, Len(b))]
    IN  [rows |-> Len(edgelist(X)), cols |-> Len(X.cells),
         e |-> csr_matrix([p \in Cells(Len(edgelist(X)), Len(X.cells)) |->
                   IF p[1] \in DOMAIN dics[p[2]] THEN dics[p[2]][p[1]] ELSE 0])]

\* incidence_matrix(d, signed) raises: d is not 0, 1 or 2, or the lookup fails
incidence_matrix_raises(X, d) ==
    \/ d \notin {0, 1, 2}
    \/ d = 2 /\ incidence_matrix_2_raises(X)

\* incidence_matrix(d, signed)
incidence_matrix(X, d, signed) ==
    LET A == IF d = 0 THEN incidence_matrix_0(X)
             ELSE IF d = 1 THEN incidence_matrix_1(X)
             ELSE incidence_matrix_2(X)
    IN  IF signed THEN A ELSE MatAbs(A)

\* shape: len(self.nodes), len(self.edges), len(self.cells)
shape(X) == <<Len(X.nodes), Cardinality(X.edges), Len(X.cells)>>

\* maxdim without the test of the edge set
maxdim_no_edge_test(X) ==
    IF Len(X.nodes) = 0 THEN 0
    ELSE IF Len(X.cells) = 0 THEN 1
    ELSE 2

\* maxdim / dim
maxdim(X) ==
    IF Len(X.nodes) = 0 THEN 0
    ELSE IF X.edges = {} THEN 0
    ELSE IF Len(X.cells) = 0 THEN 1
    ELSE 2

\* _incidence_to_adjacency without A.setdiag(0)
incidence_to_adjacency_keep_diag(M) == MatMul(M, Transpose(M))

\* _incidence_to_adjacency(M): M.dot(M.transpose()) with setdiag(0)
incidence_to_adjacency(M) ==
    LET A == MatMul(M, Transpose(M))
    IN  SetDiagZero(A)

\* adjacency_matrix(d) raises (the definition that is in force, the second one
\* of the class; index left at False)
adjacency_matrix_raises(X, d) == incidence_matrix_raises(X, d + 1)

\* adjacency_matrix(d): the matrix returned, built from the unsigned
\* incidence_matrix(d + 1)
adjacency_matrix(X, d) ==
    incidence_to_adjacency(incidence_matrix(X, d + 1, FALSE))

\* the ranks handed to the Laplacians
LaplacianRanks == {-2, -1, 0, 1, 2, 3}

\* up_laplacian_matrix(d) raises: d is neither 0 nor below maxdim, or
\* incidence_matrix(d + 1) raises
up_laplacian_matrix_raises(X, d) ==
    \/ ~(d = 0 \/ d < maxdim(X))
    \/ incidence_matrix_raises(X, d + 1)

\* up_laplacian_matrix(d, signed): B_next @ B_next.transpose(), abs(...) of it
\* when signed is False
up_laplacian_matrix(X, d, signed) ==
    LET B_next == incidence_matrix(X, d + 1, TRUE)
        L_up   == MatMul(B_next, Transpose(B_next))
    IN  IF signed THEN L_up ELSE MatAbs(L_up)

\* down_laplacian_matrix(d) raises
down_laplacian_matrix_raises(X, d) ==
    \/ ~(d <= maxdim(X) /\ d > 0)
    \/ incidence_matrix_raises(X, d)

\* down_laplacian_matrix(d, signed): B.transpose() @ B
down_laplacian_matrix(X, d, signed) ==
    LET B      == incidence_matrix(X, d, TRUE)
        L_down == MatMul(Transpose(B), B)
    IN  IF signed THEN L_down ELSE MatAbs(L_down)

\* hodge_laplacian_matrix(d) raises: the branches are d == 0, d < 2,
\* d == self.maxdim, else raise
hodge_laplacian_matrix_raises(X, d) ==
    IF d = 0 THEN incidence_matrix_raises(X, d + 1)
    ELSE IF d < 2 THEN incidence_matrix_raises(X, d + 1) \/ incidence_matrix_raises(X, d)
    ELSE IF d = maxdim(X) THEN incidence_matrix_raises(X, d)
    ELSE TRUE

\* hodge_laplacian_matrix with the down term left out of the branch d < 2
hodge_laplacian_matrix_up_only(X, d, signed) ==
    LET L == IF d < 2
             THEN LET B_next == incidence_matrix(X, d + 1, TRUE)
                  IN  MatMul(B_next, Transpose(B_next))
             ELSE LET B == incidence_matrix(X, d, TRUE)
                  IN  MatMul(Transpose(B), B)
    IN  IF signed THEN L ELSE MatAbs(L)

\* hodge_laplacian_matrix(d, signed)
hodge_laplacian_matrix(X, d, signed) ==
    LET L == IF d = 0
             THEN LET B_next == incidence_matrix(X, d + 1, TRUE)
                  IN  MatMul(B_next, Transpose(B_next))
             ELSE IF d < 2
             THEN LET B_next == incidence_matrix(X, d + 1, TRUE)
                      B      == incidence_matrix(X, d, TRUE)
                  IN  MatAdd(MatMul(B_next, Transpose(B_next)), MatMul(Transpose(B), B))
             ELSE LET B == incidence_matrix(X, d, TRUE)
                  IN  MatMul(Transpose(B), B)
    IN  IF signed THEN L ELSE MatAbs(L)

\* the methods that k_hop_incidence_matrix and k_hop_coincidence_matrix call
\* on self and CellComplex defines
defined_methods == {"incidence_matrix", "adjacency_matrix", "coadjacency_matrix"}

\* how a k-hop operator ends: the terms its result is made of
KHop(outcome, terms) == [outcome |-> outcome, terms |-> terms]

\* the tail of both k-hop operators: Ad is bound `if d < self.maxdim and
\* d >= 0`, coAd `if d <= self.maxdim and d > 0`, then the return is chosen
\* by `if d == self.maxdim ... elif d == 0 ... else`
k_hop_terms(X, d) ==
    LET hasAd   == d < maxdim(X) /\ d >= 0
        hasCoAd == d <= maxdim(X) /\ d > 0
    IN  IF hasAd /\ adjacency_matrix_raises(X, d) THEN KHop("KeyError", {})
        ELSE IF d = maxdim(X)
             THEN IF hasCoAd THEN KHop("returned", {"down"})
                  ELSE KHop("UnboundLocalError", {})
        ELSE IF d = 0
             THEN IF hasAd THEN KHop("returned", {"up"})
                  ELSE KHop("UnboundLocalError", {})
        ELSE IF hasAd /\ hasCoAd THEN KHop("returned", {"up", "down"})
        ELSE KHop("UnboundLocalError", {})

\* k_hop_incidence_matrix(d, k)
k_hop_incidence_matrix(X, d, k) ==
    IF incidence_matrix_raises(X, d)
    THEN KHop(IF d \in {0, 1, 2} THEN "KeyError" ELSE "ValueError", {})
    ELSE k_hop_terms(X, d)

\* k_hop_coincidence_matrix(d, k): BTd = self.coincidence_matrix(d, signed=True)
k_hop_coincidence_matrix(X, d, k) ==
    IF "coincidence_matrix" \notin defined_methods THEN KHop("AttributeError", {})
    ELSE k_hop_terms(X, d)

----------------------------------------------------------------------------
(* The connectivity family.  A query ends as Answer(outcome, value): outcome  *)
(* "returned" with the value, "inf" for np.inf, or the exception raised.      *)

Answer(outcome, value) == [outcome |-> outcome, value |-> value]

\* def cell_adjacency_matrix(self, signed=True, weight=None, index=False)
cell_adjacency_matrix_parameters == {"signed", "weight", "index"}

\* def node_adjacency_matrix(self, index=False, s=1, weight=False)
node_adjacency_matrix_parameters == {"index", "s", "weight"}

\* a call that passes a keyword the function does not declare raises TypeError
TypeErrorOnCall(parameters, keywords) == ~(keywords \subseteq parameters)

\* the graph of node_adjacency_matrix: two nodes are joined when an edge or a
\* 2-cell holds both
NodeGraph(X) ==
    LET V == Range(X.nodes)
    IN  [V |-> V,
         E |-> {{u, v} : <<u, v>> \in
                   {p \in V \X V :
                       /\ p[1] # p[2]
                       /\ \/ {p[1], p[2]} \in X.edges
                          \/ \E i \in DOMAIN X.cells :
                                 {p[1], p[2]} \subseteq Range(X.cells[i].elements)}}]

\* the edges and the 2-cells of the complex, as the columns of the incidence
\* matrix of the combinatorial complex
HigherCells(X) ==
    {[rank |-> 1, at |-> 0, elements |-> e] : e \in GEdges(X.nodes, X.edges)}
        \cup {[rank |-> 2, at |-> i, elements |-> X.cells[i].elements] : i \in DOMAIN X.cells}

\* the graph of cell_adjacency_matrix: two cells are joined when they share a
\* node
CellGraph(X) ==
    LET V == HigherCells(X)
    IN  [V |-> V,
         E |-> {{c, d} : <<c, d>> \in
                   {p \in V \X V :
                       /\ p[1] # p[2]
                       /\ Range(p[1].elements) \cap Range(p[2].elements) # {}}}]

\* the vertices within k steps of S
RECURSIVE Ball(_, _, _)
Ball(G, S, k) ==
    IF k = 0 THEN S
    ELSE Ball(G, S \cup {w \in G.V : \E u \in S : {u, w} \in G.E}, k - 1)

\* nx.connected_components(G)
connected_components(G) == {Ball(G, {v}, Cardinality(G.V)) : v \in G.V}

\* nx.is_connected(G), G not the null graph
is_connected(G) == Cardinality(connected_components(G)) = 1

\* nx.shortest_path_length(G, u, v), v reachable from u
shortest_path_length(G, u, v) ==
    CHOOSE k \in 0..Cardinality(G.V) :
        /\ v \in Ball(G, {u}, k)
        /\ k = 0 \/ v \notin Ball(G, {u}, k - 1)

\* nx.diameter(G), G connected
graph_diameter(G) ==
    CHOOSE k \in 0..Cardinality(G.V) :
        /\ \A u, v \in G.V : shortest_path_length(G, u, v) <= k
        /\ \E u, v \in G.V : shortest_path_length(G, u, v) = k

\* for c in nx.connected_components(G): the components yielded
yielded_components(G, return_singletons) ==
    {c \in connected_components(G) : return_singletons \/ Cardinality(c) # 1}

\* s_connected_components(s, cells, return_singletons), read to its end
s_connected_components(X, of_cells, return_singletons) ==
    IF of_cells
    THEN IF TypeErrorOnCall(cell_adjacency_matrix_parameters, {"s", "index"})
         THEN Answer("TypeError", {})
         ELSE Answer("returned", yielded_components(CellGraph(X), return_singletons))
    ELSE IF TypeErrorOnCall(node_adjacency_matrix_parameters, {"s", "index"})
         THEN Answer("TypeError", {})
         ELSE Answer("returned", yielded_components(NodeGraph(X), return_singletons))

\* if nx.is_connected(G): return nx.diameter(G) else: raise TopoNetXError
diameter_of(G) ==
    IF G.V = {} THEN Answer("NetworkXPointlessConcept", 0)
    ELSE IF is_connected(G) THEN Answer("returned", graph_diameter(G))
    ELSE Answer("TopoNetXError", 0)

\* diameter(s)
diameter(X) ==
    IF TypeErrorOnCall(node_adjacency_matrix_parameters, {"s"})
    THEN Answer("TypeError", 0)
    ELSE diameter_of(NodeGraph(X))

\* cell_diameter(s)
cell_diameter(X) ==
    IF TypeErrorOnCall(cell_adjacency_matrix_parameters, {"s"})
    THEN Answer("TypeError", 0)
    ELSE diameter_of(CellGraph(X))

\* try: return nx.shortest_path_length(g, key[source], key[target])
\* except: return np.inf
distance_in(G, source, target) ==
    IF source \in G.V /\ target \in Ball(G, {source}, Cardinality(G.V))
    THEN Answer("returned", shortest_path_length(G, source, target))
    ELSE Answer("inf", 0)

\* distance(source, target, s)
distance(X, source, target) ==
    IF TypeErrorOnCall(node_adjacency_matrix_parameters, {"s", "index"})
    THEN Answer("TypeError", 0)
    ELSE distance_in(NodeGraph(X), source, target)

\* cell_distance(source, target, s)
cell_distance(X, source, target) ==
    IF TypeErrorOnCall(cell_adjacency_matrix_parameters, {"s", "index"})
    THEN Answer("TypeError", 0)
    ELSE distance_in(CellGraph(X), source, target)

----------------------------------------------------------------------------
Self == Complex(nodes, edges, cells)

\* the arguments of a call: the form of the cell argument ("seq" a list or
\* tuple of nodes, "Cell" a Cell object), rank, check_skeleton and, for a call
\* that treats its argument as a 2-cell, whether the node sequence repeats a
\* node and whether one of its boundary edges was missing from the skeleton
\* when the call began
RepeatsNode(el) == \E i, j \in DOMAIN el : i # j /\ el[i] = el[j]

MissesEdge(el) == \E i \in DOMAIN el : {el[i], el[(i % Len(el)) + 1]} \notin edges

Call(op, form, rank, cs, el) ==
    [op |-> op, form |-> form, rank |-> rank, cs |-> cs,
     repeat |-> (form = "Cell" \/ rank = 2) /\ RepeatsNode(el),
     missing |-> (form = "Cell" \/ rank = 2) /\ MissesEdge(el)]

Plain(op) == [op |-> op, form |-> "none", rank |-> -1, cs |-> FALSE,
              repeat |-> FALSE, missing |-> FALSE]

NoCall == [call |-> Plain("none"), outcome |-> "ok", why |-> "none"]

\* an object handed to the caller: a view shows the graph's nodes as they are
\* when it is read, anything else keeps the items it was built with
Fresh(items) == [view |-> FALSE, items |-> items]

\* self._G.nodes
NodeView(X) == [view |-> TRUE, items |-> X.nodes]

\* cell_index = {cell: i for i, cell in enumerate(self.cells)}: the cells in
\* the order of their columns
cell_index(X) == [i \in DOMAIN X.cells |-> X.cells[i].elements]

\* incidence_matrix(d, signed, index=True): the row index, the column index
\* and the matrix
incidence_matrix_index(X, d, signed) ==
    [d |-> d,
     rows |-> IF d = 0 THEN NodeView(X)
              ELSE IF d = 1 THEN Fresh(nodelist(X))
              ELSE Fresh(edge_index(X)),
     cols |-> IF d = 0 THEN Fresh(<<>>)
              ELSE IF d = 1 THEN Fresh(edgelist(X))
              ELSE Fresh(cell_index(X)),
     A |-> incidence_matrix(X, d, signed)]

\* no incidence_matrix result is held
NoIndex == [d |-> -1, rows |-> Fresh(<<>>), cols |-> Fresh(<<>>),
            A |-> [rows |-> 0, cols |-> 0, e |-> <<>>]]

\* what the caller reads in a held object now
Contents(o) == IF o.view THEN nodes ELSE o.items

\* the complex was not built from a graph
NoGraph == [given |-> FALSE, nodes |-> <<>>, edges |-> {}]

\* the caller's G now: self._G = cells makes it the graph of the complex
CallerG == [nodes |-> nodes, edges |-> edges]

\* a second CellComplex(G) built from the same G: the same graph, its own
\* empty CellView
Sibling == Complex(nodes, edges, <<>>)

\* the cache attribute: absent on a new object, else a dictionary
NoCache == [exists |-> FALSE, items |-> NoAttr]

CacheKeys == {"incidence", "adjacency"}
CacheValues == 1..MaxCacheValue

\* a _clear_cache that sets the attribute only when the object has none
clear_cache_if_absent(c) == IF c.exists THEN c ELSE [exists |-> TRUE, items |-> NoAttr]

\* _clear_cache(): self.cache = {}
clear_cache(c) == [exists |-> TRUE, items |-> NoAttr]

\* complex_obj.cache: AttributeError while the attribute is absent
read_cache(c) == IF c.exists THEN "ok" ELSE "AttributeError"

\* a call ends as r: the complex takes r's state; the MaxOps-th call of a run
\* is the one whose arguments and outcome are kept in last
Becomes(r, call) ==
    /\ nodes' = r.nodes
    /\ edges' = r.edges
    /\ cells' = r.cells
    /\ last' = IF nops + 1 = MaxOps
               THEN [call |-> call, outcome |-> r.outcome, why |-> r.why]
               ELSE NoCall
    /\ nops' = nops + 1
    /\ node_attr' = NodeAttr(r.nodes, node_attr)
    /\ UNCHANGED <<regular, held, caller, cache>>

\* CellComplex(regular=...): an empty complex
Init ==
    /\ regular \in BOOLEAN
    /\ nodes = <<>>
    /\ edges = {}
    /\ cells = <<>>
    /\ nops = 0
    /\ last = NoCall
    /\ held = NoIndex
    /\ caller = NoGraph
    /\ node_attr = NodeAttr(nodes, NoAttr)
    /\ cache = NoCache

\* add_node(node)
AddNode ==
    /\ nops < MaxOps
    /\ \E n \in Nodes :
           Becomes(Result(Complex(GAddNode(nodes, n), edges, cells), "ok", "none"),
                   Plain("add_node"))

\* add_edge(u, v)
AddEdge ==
    /\ nops < MaxOps
    /\ \E u, v \in Nodes :
           Becomes(Result(Complex(GAddEdgeNodes(nodes, u, v), edges \cup {{u, v}}, cells),
                          "ok", "none"), Plain("add_edge"))

\* add_cell(cell, rank, check_skeleton), cell a node sequence; check_skeleton
\* matters to a rank-2 call only
AddCell ==
    /\ nops < MaxOps
    /\ Len(cells) < MaxCells
    /\ \E cell \in CellInputs, rank \in Ranks, cs \in BOOLEAN :
           /\ rank # 2 => cs = check_skeleton_default
           /\ \E r \in add_cell(Self, regular, cell, rank, cs) :
                  Becomes(r, Call("add_cell", "seq", rank, cs, cell))

\* add_cell(cell, rank, check_skeleton), cell a Cell object
AddCellObject ==
    /\ nops < MaxOps
    /\ Len(cells) < MaxCells
    /\ \E c \in CellObjects, rank \in {0, 2}, cs \in BOOLEAN :
           Becomes(add_cell_object(Self, regular, c, rank, cs),
                   Call("add_cell", "Cell", rank, cs, c.elements))

\* add_cells_from(cell_set, rank)
AddCellsFrom ==
    /\ nops < MaxOps
    /\ \E cell_set \in BatchInputs, rank \in {1, 2} :
           /\ Len(cells) + Len(cell_set) <= MaxCells
           /\ \E r \in add_cells_from(Self, regular, cell_set, 1, rank) :
                  Becomes(r, Plain("add_cells_from"))

\* remove_cell(cell)
RemoveCell ==
    /\ nops < MaxOps
    /\ \E form \in Forms, key \in CellInputs :
           \E r \in remove_cell(Self, form, key) : Becomes(r, Plain("remove_cell"))

\* remove_cells(cell_set)
RemoveCells ==
    /\ nops < MaxOps
    /\ \E form \in Forms, cell_set \in BatchInputs :
           \E r \in remove_cells(Self, form, cell_set, 1) : Becomes(r, Plain("remove_cells"))

\* remove_equivalent_cells()
RemoveEquivalentCells ==
    /\ nops < MaxOps
    /\ Becomes(Result(Complex(nodes, edges, remove_equivalent(cells)), "ok", "none"),
               Plain("remove_equivalent_cells"))

\* remove_singletons()
RemoveSingletons ==
    /\ nops < MaxOps
    /\ Becomes(Result(remove_singletons(Self), "ok", "none"), Plain("remove_singletons"))

Next ==
    \/ AddNode
    \/ AddEdge
    \/ AddCell
    \/ AddCellObject
    \/ AddCellsFrom
    \/ RemoveCell
    \/ RemoveCells
    \/ RemoveEquivalentCells
    \/ RemoveSingletons

Spec == Init /\ [][Next]_vars

\* add_cell(cell, rank=2), cell a closed walk of up to MaxWalkLen nodes
AddCellWalk ==
    /\ nops < MaxOps
    /\ Len(cells) < MaxWalkCells
    /\ \E cell \in WalkInputs :
           \E r \in add_cell(Self, regular, cell, 2, check_skeleton_default) :
               Becomes(r, Call("add_cell", "seq", 2, check_skeleton_default, cell))

\* the runs made of add_edge and of add_cell of closed walks
NextWalk ==
    \/ AddEdge
    \/ AddCellWalk

SpecWalk == Init /\ [][NextWalk]_vars

\* the cells of the class docstring's Example 1, in the order of the calls
ScenarioCells == <<(<<1, 2, 3, 4>>), (<<2, 3, 4, 5>>), (<<5, 6, 7, 8>>)>>

\* CX.add_cell(ScenarioCells[k], rank=2) for k = 1, 2, 3 on an empty complex
ScenarioAddCell ==
    /\ nops < Len(ScenarioCells)
    /\ \E r \in add_cell(Self, regular, ScenarioCells[nops + 1], 2, check_skeleton_default) :
           Becomes(r, Call("add_cell", "seq", 2, check_skeleton_default,
                           ScenarioCells[nops + 1]))

NextScenario == ScenarioAddCell

SpecScenario == Init /\ [][NextScenario]_vars

\* the runs that only build, MaxBuildOps calls of add_node, add_edge and
\* add_cell: the complexes the matrix identities are compared on
BuildNode == nops < MaxBuildOps /\ AddNode

BuildEdge == nops < MaxBuildOps /\ AddEdge

BuildCell == nops < MaxBuildOps /\ AddCell

BuildCellObject == nops < MaxBuildOps /\ AddCellObject

NextBuild ==
    \/ BuildNode
    \/ BuildEdge
    \/ BuildCellObject
    \/ BuildCell

SpecBuild == Init /\ [][NextBuild]_vars

\* rows, cols, A = incidence_matrix(d, signed, index=True), kept by the caller
TakeIncidenceMatrix ==
    /\ held.d = -1
    /\ \E d \in {0, 1, 2}, signed \in BOOLEAN :
           /\ ~incidence_matrix_raises(Self, d)
           /\ held' = incidence_matrix_index(Self, d, signed)
    /\ UNCHANGED <<regular, nodes, edges, cells, nops, last, caller, node_attr, cache>>

BuildRemoveCell == nops < MaxBuildOps /\ RemoveCell

BuildRemoveSingletons == nops < MaxBuildOps /\ RemoveSingletons

\* a caller that takes an indexed incidence matrix once and goes on changing
\* the complex
NextSnapshot ==
    \/ TakeIncidenceMatrix
    \/ BuildNode
    \/ BuildEdge
    \/ BuildRemoveSingletons
    \/ BuildRemoveCell
    \/ BuildCell

SpecSnapshot == Init /\ [][NextSnapshot]_vars

\* the graphs a caller can have built: nodes in insertion order, at most
\* MaxGraphEdges edges between them
GraphInputs ==
    {[nodes |-> ns, edges |-> es] :
        <<ns, es>> \in
            {p \in (UNION {[1..k -> Nodes] : k \in 0..MaxNode})
                     \X {es \in SUBSET {{u, v} : u, v \in Nodes} : Cardinality(es) <= MaxGraphEdges} :
                /\ \A i, j \in DOMAIN p[1] : i # j => p[1][i] # p[1][j]
                /\ \A e \in p[2] : e \subseteq Range(p[1])}}

\* CellComplex(G, regular=...), G a networkx Graph: self._G = cells
InitShared ==
    /\ regular \in BOOLEAN
    /\ \E G \in GraphInputs :
           /\ nodes = G.nodes
           /\ edges = G.edges
           /\ caller = [given |-> TRUE, nodes |-> G.nodes, edges |-> G.edges]
    /\ cells = <<>>
    /\ nops = 0
    /\ last = NoCall
    /\ held = NoIndex
    /\ node_attr = NodeAttr(nodes, NoAttr)
    /\ cache = NoCache

NextShared ==
    \/ BuildNode
    \/ BuildEdge
    \/ BuildRemoveSingletons
    \/ BuildCell

SpecShared == InitShared /\ [][NextShared]_vars

\* add_node(node, **attr)
AddNodeAttr ==
    /\ nops < MaxOps
    /\ \E n \in Nodes, attr \in AttrInputs :
           LET r == add_node(Self, node_attr, n, attr)
           IN  /\ nodes' = r.nodes
               /\ node_attr' = r.node_attr
    /\ nops' = nops + 1
    /\ UNCHANGED <<regular, edges, cells, last, held, caller, cache>>

\* nodes inserted with attributes, and edges between them
NextAttr == AddNodeAttr \/ BuildEdge

SpecAttr == Init /\ [][NextAttr]_vars

\* a cache call ends: every one of them is kept in last
CacheCall(op, outcome) ==
    /\ last' = [call |-> Plain(op), outcome |-> IF outcome = "ok" THEN "ok" ELSE "raised",
                why |-> outcome]
    /\ nops' = nops + 1
    /\ UNCHANGED <<regular, nodes, edges, cells, held, caller, node_attr>>

\* complex_obj._clear_cache()
ClearCache ==
    /\ nops < MaxCacheOps
    /\ cache' = clear_cache(cache)
    /\ CacheCall("_clear_cache", "ok")

\* complex_obj.cache
ReadCache ==
    /\ nops < MaxCacheOps
    /\ cache' = cache
    /\ CacheCall("cache", read_cache(cache))

\* complex_obj.cache[key] = value
WriteCache ==
    /\ nops < MaxCacheOps
    /\ \E key \in CacheKeys, value \in CacheValues :
           cache' = IF cache.exists
                    THEN [exists |-> TRUE,
                          items |-> DictUpdate(cache.items, [k \in {key} |-> value])]
                    ELSE cache
    /\ CacheCall("cache[key] = value", read_cache(cache))

NextCache == ClearCache \/ ReadCache \/ WriteCache

SpecCache == Init /\ [][NextCache]_vars
----------------------------------------------------------------------------
(* Properties                                                              *)

B1 == incidence_matrix(Self, 1, TRUE)
B2 == incidence_matrix(Self, 2, TRUE)

IsZero(A) == \A p \in DOMAIN A.e : A.e[p] = 0

\* the last call was add_cell with an argument treated as a 2-cell
LastAddsTwoCell(l) ==
    /\ l.call.op = "add_cell"
    /\ l.call.form = "Cell" \/ l.call.rank = 2

\* C1: in every reachable state of a regular complex incidence_matrix(2) is
\* computed without error and incidence_matrix(1) x incidence_matrix(2), over
\* the shared edge ordering, has every entry 0.
C1_BoundaryClosure ==
    regular => /\ ~incidence_matrix_raises(Self, 2)
               /\ LET b1 == B1
                      b2 == B2
                  IN  b1.cols = b2.rows /\ IsZero(MatMul(b1, b2))

C1_Witness ==
    /\ regular
    /\ Len(cells) = 2
    /\ \E i \in DOMAIN cells : Len(cells[i].elements) = 3
    /\ ~IsZero(B2)
    /\ C1_BoundaryClosure

C3_RegularCellsOnly ==
    regular => \A i \in DOMAIN cells : ~RepeatsNode(cells[i].elements)

C3_Witness ==
    /\ regular
    /\ cells # <<>>
    /\ LastAddsTwoCell(last)
    /\ last.call.repeat
    /\ C3_RegularCellsOnly

\* C4: in a regular complex add_cell of a 2-cell whose node sequence repeats
\* a node raises, and the cell count is what it was before the call.
C4_RegularityRaises ==
    [][(/\ regular
        /\ LastAddsTwoCell(last')
        /\ last'.call.repeat)
       => /\ last'.outcome = "raised"
          /\ Len(cells') = Len(cells)]_vars

\* C5 as stated: add_cell(x, rank=0) and add_cell(x, rank=3) raise and leave
\* nodes, edges and cells unchanged, x a node sequence or a Cell object.
C5_RankRejectedAlways ==
    [][(/\ last'.call.op = "add_cell"
        /\ last'.call.rank \in {0, 3})
       => /\ last'.outcome = "raised"
          /\ UNCHANGED <<nodes, edges, cells>>]_vars

\* C5 amended: add_cell(x, rank=0) and add_cell(x, rank=3) with x a node
\* sequence (a list or a tuple, of any length) raise and leave nodes, edges
\* and cells unchanged.
C5_RankRejected ==
    [][(/\ last'.call.op = "add_cell"
        /\ last'.call.form = "seq"
        /\ last'.call.rank \in {0, 3})
       => /\ last'.outcome = "raised"
          /\ UNCHANGED <<nodes, edges, cells>>]_vars

C5_Witness ==
    /\ last.call.op = "add_cell"
    /\ last.call.form = "seq"
    /\ last.call.rank = 3
    /\ last.outcome = "raised"
    /\ cells # <<>>

\* C6: remove_cell and remove_cells leave the node set and the edge set of
\* the skeleton as they were.
C6_NoCascade ==
    [][last'.call.op \in {"remove_cell", "remove_cells"}
       => nodes' = nodes /\ edges' = edges]_vars

C6_Witness ==
    /\ last.call.op = "remove_cell"
    /\ last.why = "deleted"
    /\ cells = <<>>
    /\ Cardinality(edges) = 3

\* C7: dim is 0 without edges, 1 with edges and no registered 2-cell, 2
\* otherwise, and it is 2 exactly when a 2-cell is registered.
C7_DerivedDimension ==
    /\ maxdim(Self) = (IF edges = {} THEN 0 ELSE IF cells = <<>> THEN 1 ELSE 2)
    /\ maxdim(Self) = 2 <=> cells # <<>>

C7_Witness ==
    /\ maxdim(Self) = 2
    /\ cells # <<>>
    /\ last.call.op = "remove_cell"
    /\ last.why = "deleted"

\* the boundary steps of a node sequence that go from u to v
Steps(el, u, v) ==
    Cardinality({i \in DOMAIN el : el[i] = u /\ el[(i % Len(el)) + 1] = v})

\* C8: the entry of incidence_matrix(2) at the row of a skeleton edge {u,v},
\* u < v, and the column of a registered cell is the number of the cell's
\* boundary steps u->v minus the number of its steps v->u.
C8_AccumulatedOrientation ==
    /\ ~incidence_matrix_raises(Self, 2)
    /\ LET b2  == B2
           row == edge_index(Self)
       IN  \A c \in DOMAIN cells : \A u, v \in Nodes :
               (u < v /\ {u, v} \in edges) =>
                   b2.e[<<row[<<u, v>>], c>>]
                       = Steps(cells[c].elements, u, v) - Steps(cells[c].elements, v, u)

\* a walk is registered with -2 at an edge it walks twice from the larger
\* endpoint to the smaller and 2 at an edge it walks twice the other way
C8_Witness ==
    /\ \E c \in DOMAIN cells : \E u, v, x, y \in Nodes :
           /\ u < v /\ x < y
           /\ Steps(cells[c].elements, v, u) = 2
           /\ B2.e[<<edge_index(Self)[<<u, v>>], c>>] = -2
           /\ Steps(cells[c].elements, x, y) = 2
           /\ B2.e[<<edge_index(Self)[<<x, y>>], c>>] = 2
    /\ C8_AccumulatedOrientation

\* C9: incidence_matrix(1) has a row per node and a column per edge, and the
\* column of an edge {u,v}, u < v, holds -1 at the row of u, +1 at the row of
\* v and 0 elsewhere, however the edge was inserted.
C9_RankOneOrientation ==
    LET b1 == B1
        el == edgelist(Self)
        nl == nodelist(Self)
    IN  /\ b1.rows = Len(nodes)
        /\ b1.cols = Cardinality(edges)
        /\ \A u, v \in Nodes :
               (u < v /\ {u, v} \in edges) =>
                   \E j \in 1..b1.cols :
                       /\ {el[j][1], el[j][2]} = {u, v}
                       /\ \A i \in 1..b1.rows :
                              b1.e[<<i, j>>] = (IF nl[i] = u THEN -1
                                                ELSE IF nl[i] = v THEN 1
                                                ELSE 0)

C9_Witness ==
    /\ \E e \in GEdges(nodes, edges) : e[1] > e[2]
    /\ Cardinality(edges) = 3
    /\ C9_RankOneOrientation

\* C10: adjacency_matrix(d), for d = 0 and for 0 <= d < dim, returns a square
\* matrix that equals its transpose and has a zero diagonal.
C10_AdjacencySymmetric ==
    \A d \in {0, 1} :
        (d = 0 \/ d < maxdim(Self)) =>
            /\ ~adjacency_matrix_raises(Self, d)
            /\ LET A == adjacency_matrix(Self, d)
               IN  /\ A.rows = A.cols
                   /\ \A i, j \in 1..A.rows : A.e[<<i, j>>] = A.e[<<j, i>>]
                   /\ \A i \in 1..A.rows : A.e[<<i, i>>] = 0

C10_Witness ==
    /\ maxdim(Self) = 2
    /\ ~IsZero(adjacency_matrix(Self, 1))
    /\ ~IsZero(adjacency_matrix(Self, 0))
    /\ C10_AdjacencySymmetric

\* C11: for every rank d that is 0 or below dim and either value of signed,
\* adjacency_matrix(d, signed) is up_laplacian_matrix(d, signed) with its
\* diagonal entries replaced by 0, entry for entry.
C11_AdjacencyFromUpLaplacian ==
    \A d \in {0, 1}, signed \in BOOLEAN :
        (d = 0 \/ d < maxdim(Self)) =>
            /\ ~adjacency_matrix_raises(Self, d)
            /\ ~up_laplacian_matrix_raises(Self, d)
            /\ adjacency_matrix(Self, d) = SetDiagZero(up_laplacian_matrix(Self, d, signed))

\* C12: hodge_laplacian_matrix(0) is B1 B1^T; for 0 < rank < dim it is
\* B_{rank+1} B_{rank+1}^T + B_rank^T B_rank; for rank = dim > 0 it is
\* B_dim^T B_dim; in every reachable state, without raising.
C12_HodgeComposition ==
    LET dim  == maxdim(Self)
        b1   == B1
        b2   == B2
        up1  == MatMul(b1, Transpose(b1))
        up2  == MatMul(b2, Transpose(b2))
        dn1  == MatMul(Transpose(b1), b1)
        dn2  == MatMul(Transpose(b2), b2)
    IN  /\ ~hodge_laplacian_matrix_raises(Self, 0)
        /\ hodge_laplacian_matrix(Self, 0, TRUE) = up1
        /\ (0 < 1 /\ 1 < dim) =>
               /\ ~hodge_laplacian_matrix_raises(Self, 1)
               /\ hodge_laplacian_matrix(Self, 1, TRUE) = MatAdd(up2, dn1)
        /\ dim = 1 =>
               /\ ~hodge_laplacian_matrix_raises(Self, 1)
               /\ hodge_laplacian_matrix(Self, 1, TRUE) = dn1
        /\ dim = 2 =>
               /\ ~hodge_laplacian_matrix_raises(Self, 2)
               /\ hodge_laplacian_matrix(Self, 2, TRUE) = dn2

C12_Witness ==
    /\ maxdim(Self) = 2
    /\ Len(cells) = 2
    /\ ~IsZero(hodge_laplacian_matrix(Self, 1, TRUE))
    /\ ~IsZero(hodge_laplacian_matrix(Self, 2, TRUE))
    /\ hodge_laplacian_matrix(Self, 1, TRUE) # MatMul(Transpose(B1), B1)
    /\ C12_HodgeComposition

\* C13: for every integer rank, up_laplacian_matrix(rank) raises unless
\* 0 <= rank <= dim - 1, down_laplacian_matrix(rank) raises unless
\* 1 <= rank <= dim, hodge_laplacian_matrix(rank) raises unless
\* 0 <= rank <= dim.
C13_LaplacianRankBounds ==
    LET dim == maxdim(Self)
    IN  \A rank \in LaplacianRanks :
            /\ up_laplacian_matrix_raises(Self, rank) <=> ~(0 <= rank /\ rank <= dim - 1)
            /\ down_laplacian_matrix_raises(Self, rank) <=> ~(1 <= rank /\ rank <= dim)
            /\ hodge_laplacian_matrix_raises(Self, rank) <=> ~(0 <= rank /\ rank <= dim)

\* an element add_cell(cell, rank) can insert
ValidElement(el, rank) ==
    IF rank = 1 THEN Len(el) = 2 /\ el[1] # el[2] ELSE CellValid(el, regular)

\* C14: add_cells_from(cell_set, rank), rank 1 or 2, does not raise whatever
\* elements the batch holds, and every valid element of the batch, before or
\* after an invalid one, is in the complex when the call ends.
C14_BatchContinues ==
    \A cell_set \in BatchInputs, rank \in {1, 2} :
        \A r \in add_cells_from(Self, regular, cell_set, 1, rank) :
            /\ r.outcome # "raised"
            /\ \A i \in DOMAIN cell_set :
                   ValidElement(cell_set[i], rank) =>
                       IF rank = 1 THEN {cell_set[i][1], cell_set[i][2]} \in r.edges
                       ELSE HasKey(r.cells, cell_set[i])

\* C15 as stated: after the three calls of Example 1 on an empty regular
\* complex the node count is 8, the edge count 8, the cell count 3 and dim 2.
C15_ScenarioEightEdges ==
    (regular /\ nops = Len(ScenarioCells)) =>
        shape(Self) = <<8, 8, 3>> /\ maxdim(Self) = 2

\* C15 amended: after the three calls of Example 1 on an empty regular
\* complex the node count is 8, the edge count 10, the cell count 3 and dim 2.
C15_Scenario ==
    (regular /\ nops = Len(ScenarioCells)) =>
        shape(Self) = <<8, 10, 3>> /\ maxdim(Self) = 2

C15_Witness ==
    /\ regular
    /\ nops = Len(ScenarioCells)
    /\ [i \in DOMAIN cells |-> cells[i].elements] = ScenarioCells
    /\ {2, 5} \in edges
    /\ {5, 8} \in edges

\* C16: s_connected_components() with its default arguments (cells=True,
\* return_singletons=False) returns normally and yields the components of
\* the derived adjacency graph that have more than one element.
C16_ConnectedComponents ==
    LET a == s_connected_components(Self, TRUE, FALSE)
    IN  /\ a.outcome = "returned"
        /\ a.value = {c \in connected_components(CellGraph(Self)) : Cardinality(c) > 1}

\* C17: diameter() and cell_diameter() return the diameter of their derived
\* adjacency graph when it is connected and raise the not-connected error,
\* and nothing else, when it is disconnected.
C17_DiameterRequiresConnectivity ==
    /\ NodeGraph(Self).V # {} =>
           IF is_connected(NodeGraph(Self))
           THEN diameter(Self) = Answer("returned", graph_diameter(NodeGraph(Self)))
           ELSE diameter(Self).outcome = "TopoNetXError"
    /\ CellGraph(Self).V # {} =>
           IF is_connected(CellGraph(Self))
           THEN cell_diameter(Self) = Answer("returned", graph_diameter(CellGraph(Self)))
           ELSE cell_diameter(Self).outcome = "TopoNetXError"

\* C18: distance and cell_distance between two elements of the complex
\* return the shortest-path length when the two lie in one component of the
\* derived adjacency graph and the infinite sentinel, without raising, when
\* they lie in different components.
C18_UnreachableIsAValue ==
    /\ \A u, v \in NodeGraph(Self).V :
           IF v \in Ball(NodeGraph(Self), {u}, Cardinality(NodeGraph(Self).V))
           THEN distance(Self, u, v)
                    = Answer("returned", shortest_path_length(NodeGraph(Self), u, v))
           ELSE distance(Self, u, v).outcome = "inf"
    /\ \A c, d \in CellGraph(Self).V :
           IF d \in Ball(CellGraph(Self), {c}, Cardinality(CellGraph(Self).V))
           THEN cell_distance(Self, c, d)
                    = Answer("returned", shortest_path_length(CellGraph(Self), c, d))
           ELSE cell_distance(Self, c, d).outcome = "inf"

\* C19: the row index, the column index and the matrix returned by
\* incidence_matrix(rank, index=True), rank 0, 1 or 2, are snapshots: later
\* add_node, add_edge, add_cell, remove_cell and remove_singletons calls
\* leave what the caller holds as it was returned.
C19_IndexIsASnapshot ==
    held.d # -1 =>
        /\ Contents(held.rows) = held.rows.items
        /\ Contents(held.cols) = held.cols.items

\* C20: a complex built from a graph G keeps its own graph: its later
\* mutations leave the caller's G as it was, and a second complex built
\* from the same G does not see them.
C20_GraphIsCopied ==
    caller.given =>
        /\ CallerG = [nodes |-> caller.nodes, edges |-> caller.edges]
        /\ Sibling = Complex(caller.nodes, caller.edges, <<>>)

\* C21: in every state reachable by add_node, add_edge, add_cell (rank 1 or
\* rank 2, regular or non-regular complex) and add_cells_from every skeleton
\* edge joins two distinct nodes.
C21_NoSelfLoops == \A e \in edges : Cardinality(e) = 2

\* C22: add_cell(x, rank=1) with x a sequence that is not two distinct nodes
\* raises and leaves nodes, edges and cells unchanged; with x = (u, v),
\* u # v, it adds the edge {u, v} and nothing else to the edges, makes u and
\* v nodes and leaves the cells as they were.
C22_RankOneValidatesPair ==
    \A x \in CellInputs :
        \A r \in add_cell(Self, regular, x, 1, check_skeleton_default) :
            IF Len(x) = 2 /\ x[1] # x[2]
            THEN /\ r.outcome = "ok"
                 /\ r.edges = edges \cup {{x[1], x[2]}}
                 /\ Range(r.nodes) = Range(nodes) \cup {x[1], x[2]}
                 /\ r.cells = cells
            ELSE /\ r.outcome = "raised"
                 /\ r.nodes = nodes /\ r.edges = edges /\ r.cells = cells

\* a rank-1 insertion of a pair of equal nodes was refused on a complex that
\* has edges and a cell
C22_Witness ==
    /\ last.call.op = "add_cell"
    /\ last.call.form = "seq"
    /\ last.call.rank = 1
    /\ last.outcome = "raised"
    /\ last.why = "selfloop"
    /\ cells # <<>>

\* C23: for every state and node n, add_node(n) followed by
\* add_node(n, **attr) leaves the node count, the edge set and the cell set
\* as after the first call, and the attribute dictionary of n then holds the
\* values of attr.
C23_NodeInsertionIdempotent ==
    \A n \in Nodes, attr \in AttrInputs :
        LET r1 == add_node(Self, node_attr, n, NoAttr)
            r2 == add_node(Complex(r1.nodes, r1.edges, r1.cells), r1.node_attr, n, attr)
        IN  /\ Len(r2.nodes) = Len(r1.nodes)
            /\ r2.edges = r1.edges
            /\ r2.cells = r1.cells
            /\ \A k \in DOMAIN attr : k \in DOMAIN r2.node_attr[n] /\ r2.node_attr[n][k] = attr[k]

\* a node inserted twice, once with an attribute: one node, one attribute
C23_Witness ==
    /\ nops = 2
    /\ Len(nodes) = 1
    /\ edges = {}
    /\ DOMAIN node_attr[nodes[1]] = {"color"}
    /\ C23_NodeInsertionIdempotent

C25_KHopTermSelection ==
    \A rank \in 0..maxdim(Self), k \in 1..MaxHops :
        LET terms == IF rank = 0 THEN {"up"}
                     ELSE IF rank = maxdim(Self) THEN {"down"}
                     ELSE {"up", "down"}
        IN  /\ k_hop_incidence_matrix(Self, rank, k) = KHop("returned", terms)
            /\ k_hop_coincidence_matrix(Self, rank, k) = KHop("returned", terms)

\* C26: remove_singletons returns a cell complex that holds every node of
\* degree at least 1, every edge and every cell of the original and no node
\* of degree 0, and the complex it was called on keeps its nodes, edges and
\* cells.
C26_RemoveSingletonsClones ==
    LET c == remove_singletons_call(Self)
    IN  /\ \E Y \in c.returned :
               /\ Range(Y.nodes) = {n \in Range(nodes) : GDegree(edges, n) >= 1}
               /\ Y.edges = edges
               /\ Y.cells = cells
        /\ c.self = Self

C28_SkeletonClosure ==
    /\ \A i \in DOMAIN cells :
           /\ Range(cells[i].elements) \subseteq Range(nodes)
           /\ EdgeSet(cells[i].elements) \subseteq edges
    /\ ~incidence_matrix_2_raises(Self)

\* remove_singletons ran on a complex that holds a cell and kept its nodes
C28_Witness ==
    /\ last.call.op = "remove_singletons"
    /\ cells # <<>>
    /\ Len(nodes) = 2
    /\ C28_SkeletonClosure

\* C29: for every state and every insertable node sequence c whose key is
\* not registered, add_cell(c, rank=2) followed by remove_cell(c), c handed
\* to remove_cell in the form it was inserted in (a list, a tuple or a Cell
\* object), leaves the cell registry as it was before the add_cell.
C29_InsertRemoveRoundTrip ==
    \A c \in CellInputs, form \in Forms :
        (/\ is_insertable_cycle(Self, regular, c, form = "Cell", check_skeleton_default) = "ok"
         /\ CellValid(c, regular)
         /\ ~HasKey(cells, c)) =>
            \A r \in (IF form = "Cell"
                      THEN {add_cell_object(Self, regular, Cell(c, regular), 2,
                                            check_skeleton_default)}
                      ELSE add_cell(Self, regular, c, 2, check_skeleton_default)) :
                \A d \in remove_cell(Complex(r.nodes, r.edges, r.cells), form, c) :
                    d.cells = cells

\* C30: two complexes with the same node set and the same edge set, built by
\* inserting the nodes and edges in different orders, return the same
\* incidence_matrix(1): same shape, same entries.
C30_OrderIndependence ==
    \A ns \in InsertionOrders(nodes) :
        incidence_matrix(Complex(ns, edges, cells), 1, TRUE) = B1
====
